---------------------------- MODULE Spec2Model ----------------------------
(***************************************************************************)
(* A model of luhnoxide (src/src/main.rs): the Luhn validator, the brand   *)
(* classifier, the candidate extractor, the masker, the per-file scanner   *)
(* threads, the orchestrator (collect, spawn, join) and the summary step.  *)
(*                                                                         *)
(* Text is modelled as sequences of character codes: the decimal digits    *)
(* are the integers 0..9, every other character has a code above 9.        *)
(***************************************************************************)
EXTENDS Integers, Sequences, FiniteSets, Bags, TLC

(***************************************************************************)
(* Characters                                                              *)
(***************************************************************************)
SPACE == 10     \* ' '  : stripped by replace(['-', ' '], "")
DASH == 11      \* '-'  : stripped by replace(['-', ' '], "")
TAB == 12       \* '\t' : matched by \s in the card pattern, never stripped
LETTER == 13    \* any other non-digit, non-separator character
MASKX == 14     \* 'X'  : the mask character of masked_pan

Digits == 0..9
Chars == 0..14

IsDigit(c) == c \in Digits

\* \D of the regex crate on the modelled alphabet
IsNonDigit(c) == c \notin Digits

\* the class [0-9-\s] of the card pattern
IsCardClass(c) == c \in Digits \/ c = DASH \/ c = SPACE \/ c = TAB

(***************************************************************************)
(* String helpers (Rust str operations used by the program)                *)
(***************************************************************************)
\* s[a..b] of Rust with 0-based half-open offsets, for 0 <= a <= b <= Len(s)
Slice(s, a, b) == SubSeq(s, a + 1, b)

\* chars().take(n)
Take(s, n) == SubSeq(s, 1, IF n < Len(s) THEN n ELSE Len(s))

\* chars().rev().take(n).collect().chars().rev()
TakeLast(s, n) == SubSeq(s, (IF n < Len(s) THEN Len(s) - n ELSE 0) + 1, Len(s))

\* "c".repeat(n)
Repeat(c, n) == [i \in 1..n |-> c]

RECURSIVE StripSeparators(_)
\* str::replace(['-', ' '], "")
StripSeparators(s) ==
    IF s = << >> THEN << >>
    ELSE IF Head(s) = DASH \/ Head(s) = SPACE THEN StripSeparators(Tail(s))
    ELSE << Head(s) >> \o StripSeparators(Tail(s))

\* whether pat occurs in s at 0-based offset i
OccursAt(s, pat, i) ==
    /\ i + Len(pat) <= Len(s)
    /\ \A k \in 1..Len(pat) : s[i + k] = pat[k]

\* str::contains
Contains(s, pat) == \E i \in 0..Len(s) : OccursAt(s, pat, i)

RECURSIVE ReplaceFrom(_, _, _, _)
\* str::replace on the suffix of s that starts at 0-based offset i:
\* non-overlapping occurrences, leftmost first
ReplaceFrom(s, pat, to, i) ==
    IF i >= Len(s) THEN << >>
    ELSE IF Len(pat) > 0 /\ OccursAt(s, pat, i)
         THEN to \o ReplaceFrom(s, pat, to, i + Len(pat))
         ELSE << s[i + 1] >> \o ReplaceFrom(s, pat, to, i + 1)

Replace(s, pat, to) == ReplaceFrom(s, pat, to, 0)

(***************************************************************************)
(* is_valid_luhn                                                           *)
(***************************************************************************)
\* one digit's contribution: doubled, minus 9 when the double exceeds 9
LuhnValue(digit, double) ==
    IF double
    THEN (IF digit * 2 > 9 THEN digit * 2 - 9 ELSE digit * 2)
    ELSE digit

RECURSIVE LuhnLoop(_, _, _, _)
\* the for loop over number.chars().rev(): i is the 1-based index of the
\* next character to visit, sum and double are the loop's variables.
\* returned is TRUE when the loop left through "return false".
LuhnLoop(number, i, sum, double) ==
    IF i = 0 THEN [returned |-> FALSE, sum |-> sum]
    ELSE IF IsDigit(number[i])
         THEN LuhnLoop(number, i - 1, sum + LuhnValue(number[i], double), ~double)
         ELSE [returned |-> TRUE, sum |-> sum]

\* is_valid_luhn without the test sum > 0
is_valid_luhn_any_multiple(number) ==
    LET r == LuhnLoop(number, Len(number), 0, FALSE)
    IN  IF r.returned THEN FALSE ELSE r.sum % 10 = 0

\* is_valid_luhn: false at a character that is no digit, else
\* sum % 10 == 0 && sum > 0
is_valid_luhn(number) ==
    LET r == LuhnLoop(number, Len(number), 0, FALSE)
    IN  IF r.returned THEN FALSE ELSE r.sum % 10 = 0 /\ r.sum > 0

(***************************************************************************)
(* CARD_BRANDS and identify_card_brand                                     *)
(***************************************************************************)
\* the table with the catch-all rule moved to the front
CARD_BRANDS_unknown_first ==
    << [name |-> "Unknown",          pattern |-> "^\\d+",
        lengths |-> {13, 14, 15, 16, 17, 18, 19}],
       [name |-> "Visa",             pattern |-> "^4\\d+",
        lengths |-> {13, 16, 19}],
       [name |-> "Mastercard",       pattern |-> "^5[1-5]\\d+|^2[2-7]\\d+",
        lengths |-> {16}],
       [name |-> "American Express", pattern |-> "^3[47]\\d+",
        lengths |-> {15}],
       [name |-> "Discover",         pattern |-> "^6(?:011|5\\d{2}|4[4-9]\\d)\\d+",
        lengths |-> {16, 19}],
       [name |-> "JCB",              pattern |-> "^35\\d+",
        lengths |-> {16, 19}],
       [name |-> "Diners Club",      pattern |-> "^3(?:0[0-5]|[68]\\d)\\d+",
        lengths |-> {14, 16, 19}],
       [name |-> "UnionPay",         pattern |-> "^62\\d+",
        lengths |-> {16, 19}] >>

\* the table without its catch-all rule
CARD_BRANDS_no_catch_all == SubSeq(CARD_BRANDS_unknown_first, 2, 8)

CARD_BRANDS ==
    << [name |-> "Visa",             pattern |-> "^4\\d+",
        lengths |-> {13, 16, 19}],
       [name |-> "Mastercard",       pattern |-> "^5[1-5]\\d+|^2[2-7]\\d+",
        lengths |-> {16}],
       [name |-> "American Express", pattern |-> "^3[47]\\d+",
        lengths |-> {15}],
       [name |-> "Discover",         pattern |-> "^6(?:011|5\\d{2}|4[4-9]\\d)\\d+",
        lengths |-> {16, 19}],
       [name |-> "JCB",              pattern |-> "^35\\d+",
        lengths |-> {16, 19}],
       [name |-> "Diners Club",      pattern |-> "^3(?:0[0-5]|[68]\\d)\\d+",
        lengths |-> {14, 16, 19}],
       [name |-> "UnionPay",         pattern |-> "^62\\d+",
        lengths |-> {16, 19}],
       [name |-> "Unknown",          pattern |-> "^\\d+",
        lengths |-> {13, 14, 15, 16, 17, 18, 19}] >>

\* s has a digit at 1-based position i
DigitAt(s, i) == i <= Len(s) /\ IsDigit(s[i])

\* s has character c at 1-based position i
CharAt(s, i, c) == i <= Len(s) /\ s[i] = c

\* s has a character of the set cs at 1-based position i
CharIn(s, i, cs) == i <= Len(s) /\ s[i] \in cs

\* Regex::is_match for the eight patterns of the table.  Every pattern is
\* anchored at the start only, so it is a test on a prefix of s.
PatternMatches(pattern, s) ==
    CASE pattern = "^4\\d+" ->
            CharAt(s, 1, 4) /\ DigitAt(s, 2)
      [] pattern = "^5[1-5]\\d+|^2[2-7]\\d+" ->
            \/ CharAt(s, 1, 5) /\ CharIn(s, 2, 1..5) /\ DigitAt(s, 3)
            \/ CharAt(s, 1, 2) /\ CharIn(s, 2, 2..7) /\ DigitAt(s, 3)
      [] pattern = "^3[47]\\d+" ->
            CharAt(s, 1, 3) /\ CharIn(s, 2, {4, 7}) /\ DigitAt(s, 3)
      [] pattern = "^6(?:011|5\\d{2}|4[4-9]\\d)\\d+" ->
            /\ CharAt(s, 1, 6)
            /\ \/ CharAt(s, 2, 0) /\ CharAt(s, 3, 1) /\ CharAt(s, 4, 1)
               \/ CharAt(s, 2, 5) /\ DigitAt(s, 3) /\ DigitAt(s, 4)
               \/ CharAt(s, 2, 4) /\ CharIn(s, 3, 4..9) /\ DigitAt(s, 4)
            /\ DigitAt(s, 5)
      [] pattern = "^35\\d+" ->
            CharAt(s, 1, 3) /\ CharAt(s, 2, 5) /\ DigitAt(s, 3)
      [] pattern = "^3(?:0[0-5]|[68]\\d)\\d+" ->
            /\ CharAt(s, 1, 3)
            /\ \/ CharAt(s, 2, 0) /\ CharIn(s, 3, 0..5)
               \/ CharIn(s, 2, {6, 8}) /\ DigitAt(s, 3)
            /\ DigitAt(s, 4)
      [] pattern = "^62\\d+" ->
            CharAt(s, 1, 6) /\ CharAt(s, 2, 2) /\ DigitAt(s, 3)
      [] pattern = "^\\d+" ->
            DigitAt(s, 1)
      [] OTHER -> FALSE

\* Option<&'static str>: None is the string "None", Some(name) the name
None == "None"

RECURSIVE BrandLoop(_, _, _)
\* for brand in CARD_BRANDS { ... return Some(brand.name) } None
BrandLoop(table, cleaned_number, i) ==
    IF i > Len(table) THEN None
    ELSE IF /\ PatternMatches(table[i].pattern, cleaned_number)
            /\ Len(cleaned_number) \in table[i].lengths
         THEN table[i].name
         ELSE BrandLoop(table, cleaned_number, i + 1)

identify_card_brand(number) ==
    BrandLoop(CARD_BRANDS, StripSeparators(number), 1)

(***************************************************************************)
(* The card pattern of scan_file and Regex::captures_iter                  *)
(*   (?:^|\D)([0-9](?:[0-9-\s]){11,18}[0-9])(?:\D|$)                       *)
(***************************************************************************)
MinMiddle == 11     \* {11,18}: fewest repetitions of [0-9-\s]
MaxMiddle == 18     \* {11,18}: most repetitions of [0-9-\s]

\* group 1 matches the len characters of line after 0-based offset g, and
\* the trailing (?:\D|$) matches behind them
GroupOk(line, g, len) ==
    /\ g + len <= Len(line)
    /\ IsDigit(line[g + 1])
    /\ \A i \in 2..(len - 1) : IsCardClass(line[g + i])
    /\ IsDigit(line[g + len])
    /\ \/ g + len < Len(line) /\ IsNonDigit(line[g + len + 1])
       \/ g + len = Len(line)

\* the repetition is greedy: the longest group that lets the rest match
GroupLens(line, g) ==
    { len \in (MinMiddle + 2)..(MaxMiddle + 2) : GroupOk(line, g, len) }

MaxOf(S) == CHOOSE x \in S : \A y \in S : y <= x

MinOf(S) == CHOOSE x \in S : \A y \in S : x <= y

\* where group 1 starts for a match that starts at 0-based offset p: at p
\* itself through ^ (only at the start of the line), at p + 1 through \D
GroupStarts(line, p) ==
    { g \in {p, p + 1} :
        /\ \/ g = p /\ p = 0
           \/ g = p + 1 /\ p < Len(line) /\ IsNonDigit(line[p + 1])
        /\ GroupLens(line, g) # {} }

\* the offsets at or after start where a match starts
MatchStarts(line, start) ==
    { p \in start..Len(line) : GroupStarts(line, p) # {} }

\* the leftmost match at or after start: group 1 is line[g .. g + len), and
\* the match ends at end (the trailing \D is consumed)
FindAt(line, start) ==
    LET p   == MinOf(MatchStarts(line, start))
        g   == MinOf(GroupStarts(line, p))
        len == MaxOf(GroupLens(line, g))
    IN  [g |-> g, len |-> len,
         end |-> IF g + len < Len(line) THEN g + len + 1 ELSE g + len]

RECURSIVE CapturesFrom(_, _)
\* captures_iter: successive non-overlapping matches, each search starting
\* where the previous match ended; the result lists group 1 of each
CapturesFrom(line, start) ==
    IF MatchStarts(line, start) = {} THEN << >>
    ELSE LET m == FindAt(line, start)
         IN  << Slice(line, m.g, m.g + m.len) >> \o CapturesFrom(line, m.end)

captures_iter(line) == CapturesFrom(line, 0)

(***************************************************************************)
(* CardMatch                                                               *)
(***************************************************************************)
MinPanLen == 13     \* (13..=19).contains(&potential_card.len())
MaxPanLen == 19
BinLen == 6         \* potential_card.chars().take(6)
LastFourLen == 4    \* potential_card.chars().rev().take(4)
MaskKeep == 10      \* "X".repeat(self.length - 10)

\* the struct literal of scan_file
NewCardMatch(brand, potential_card, file_path_str, line_number, line) ==
    [ brand        |-> brand,
      full_pan     |-> potential_card,
      bin          |-> Take(potential_card, BinLen),
      last_four    |-> TakeLast(potential_card, LastFourLen),
      length       |-> Len(potential_card),
      file_path    |-> file_path_str,
      line_number  |-> line_number,
      line_content |-> line ]

\* masked_pan with a middle of fixed width, right for 16 digits only
masked_pan_fixed_middle(m) ==
    m.bin \o Repeat(MASKX, 6) \o m.last_four

\* CardMatch::masked_pan
masked_pan(m) ==
    m.bin \o Repeat(MASKX, m.length - MaskKeep) \o m.last_four

\* the two grouped patterns of mask_line_content, built from
\* card_digits_only[0..4], [4..8], [8..12], [12..16] and the separator sep
GroupedPattern(card_digits_only, sep) ==
    Slice(card_digits_only, 0, 4) \o << sep >> \o
    Slice(card_digits_only, 4, 8) \o << sep >> \o
    Slice(card_digits_only, 8, 12) \o << sep >> \o
    Slice(card_digits_only, 12, 16)

\* CardMatch::mask_line_content.  panicked is TRUE when a slice of
\* card_digits_only is out of range (the PAN has fewer than 16 characters).
mask_line_content(m) ==
    LET card_digits_only == m.full_pan
        masked_line      == m.line_content
    IN  IF Contains(masked_line, card_digits_only)
        THEN [panicked |-> FALSE,
              line |-> Replace(masked_line, card_digits_only, masked_pan(m))]
        ELSE IF Len(card_digits_only) < 16
        THEN [panicked |-> TRUE, line |-> << >>]
        ELSE LET spaces == GroupedPattern(card_digits_only, SPACE)
                 dashes == GroupedPattern(card_digits_only, DASH)
             IN  IF Contains(masked_line, spaces)
                 THEN [panicked |-> FALSE,
                       line |-> Replace(masked_line, spaces, masked_pan(m))]
                 ELSE IF Contains(masked_line, dashes)
                 THEN [panicked |-> FALSE,
                       line |-> Replace(masked_line, dashes, masked_pan(m))]
                 ELSE [panicked |-> FALSE, line |-> masked_line]

(***************************************************************************)
(* The per-line pipeline of scan_file                                      *)
(***************************************************************************)
\* the loop body without the call of is_valid_luhn
MatchOfCaptureNoLuhn(matched, file_path_str, line_number, line) ==
    LET potential_card == StripSeparators(matched)
    IN  IF Len(potential_card) \in MinPanLen..MaxPanLen
        THEN LET brand == identify_card_brand(potential_card)
             IN  IF brand # None
                 THEN << NewCardMatch(brand, potential_card, file_path_str,
                                      line_number, line) >>
                 ELSE << >>
        ELSE << >>

\* the body of "for cap in card_pattern.captures_iter(&line)" for one
\* capture: the CardMatch it pushes, as a sequence of zero or one element
MatchOfCapture(matched, file_path_str, line_number, line) ==
    LET potential_card == StripSeparators(matched)
    IN  IF /\ Len(potential_card) \in MinPanLen..MaxPanLen
           /\ is_valid_luhn(potential_card)
        THEN LET brand == identify_card_brand(potential_card)
             IN  IF brand # None
                 THEN << NewCardMatch(brand, potential_card, file_path_str,
                                      line_number, line) >>
                 ELSE << >>
        ELSE << >>

RECURSIVE MatchesOfCaptures(_, _, _, _)
MatchesOfCaptures(caps, file_path_str, line_number, line) ==
    IF caps = << >> THEN << >>
    ELSE MatchOfCapture(Head(caps), file_path_str, line_number, line)
         \o MatchesOfCaptures(Tail(caps), file_path_str, line_number, line)

\* every CardMatch one decodable line yields, in the order they are pushed
LineMatches(file_path_str, line_number, line) ==
    MatchesOfCaptures(captures_iter(line), file_path_str, line_number, line)

(***************************************************************************)
(* The inputs of a run: card numbers, lines, files and the directory tree  *)
(***************************************************************************)
\* 4532015112830366: Visa, 16 digits
PanVisa ==
    << 4, 5, 3, 2, 0, 1, 5, 1, 1, 2, 8, 3, 0, 3, 6, 6 >>

\* 4532015112830367: the same with a wrong check digit
PanVisaBad ==
    << 4, 5, 3, 2, 0, 1, 5, 1, 1, 2, 8, 3, 0, 3, 6, 7 >>

\* 4222222222222: Visa, 13 digits
PanVisa13 ==
    << 4, 2, 2, 2, 2, 2, 2, 2, 2, 2, 2, 2, 2 >>

\* 4000000000000000006: Visa, 19 digits
PanVisa19 ==
    << 4, 0, 0, 0, 0, 0, 0, 0, 0, 0, 0, 0, 0, 0, 0, 0, 0, 0, 6 >>

\* 5555555555554444: Mastercard, 16 digits
PanMaster ==
    << 5, 5, 5, 5, 5, 5, 5, 5, 5, 5, 5, 5, 4, 4, 4, 4 >>

\* 2223000048400011: Mastercard 2-series, 16 digits
PanMaster2 ==
    << 2, 2, 2, 3, 0, 0, 0, 0, 4, 8, 4, 0, 0, 0, 1, 1 >>

\* 378282246310005: American Express, 15 digits
PanAmex ==
    << 3, 7, 8, 2, 8, 2, 2, 4, 6, 3, 1, 0, 0, 0, 5 >>

\* 6011111111111117: Discover, 16 digits
PanDiscover ==
    << 6, 0, 1, 1, 1, 1, 1, 1, 1, 1, 1, 1, 1, 1, 1, 7 >>

\* 3530111333300000: JCB, 16 digits
PanJcb ==
    << 3, 5, 3, 0, 1, 1, 1, 3, 3, 3, 3, 0, 0, 0, 0, 0 >>

\* 30569309025904: Diners Club, 14 digits
PanDiners ==
    << 3, 0, 5, 6, 9, 3, 0, 9, 0, 2, 5, 9, 0, 4 >>

\* 6200000000000005: UnionPay, 16 digits
PanUnionPay ==
    << 6, 2, 0, 0, 0, 0, 0, 0, 0, 0, 0, 0, 0, 0, 0, 5 >>

\* 99999999999999996: no specific brand, 17 digits
PanUnknown17 ==
    << 9, 9, 9, 9, 9, 9, 9, 9, 9, 9, 9, 9, 9, 9, 9, 9, 6 >>

\* 700000000000000005: no specific brand, 18 digits
PanUnknown18 ==
    << 7, 0, 0, 0, 0, 0, 0, 0, 0, 0, 0, 0, 0, 0, 0, 0, 0, 5 >>

\* "card: " in front of a number
Label == << LETTER, LETTER, LETTER, LETTER, LETTER, SPACE >>

\* "; " between two numbers
Sep == << LETTER, SPACE >>

RECURSIVE Grouped(_, _)
\* a number written in groups of four with the separator sep
Grouped(pan, sep) ==
    IF Len(pan) <= 4 THEN pan
    ELSE SubSeq(pan, 1, 4) \o << sep >> \o Grouped(SubSeq(pan, 5, Len(pan)), sep)

LineText == << LETTER, LETTER, SPACE, LETTER >>

LineVisa == Label \o PanVisa

LineVisa13 == PanVisa13

LineMaster == PanMaster

\* 3782 822463 10005
LineAmexGrouped ==
    Label \o SubSeq(PanAmex, 1, 4) \o << SPACE >> \o SubSeq(PanAmex, 5, 10)
          \o << SPACE >> \o SubSeq(PanAmex, 11, 15)

LineVisaSpaces == Grouped(PanVisa, SPACE) \o << LETTER >>

LineVisaDashes == Label \o Grouped(PanVisa, DASH)

\* a wrong check digit, then sixteen zeros
LineBadZeros == Label \o PanVisaBad \o Sep \o Repeat(0, 16)

\* a number grouped by tabs, then a run of 32 digits
LineTabsLong == Grouped(PanVisa, TAB) \o Sep \o PanVisa \o PanVisa

\* two numbers with a single space between them
LineTwoClose == PanDiscover \o << SPACE >> \o PanMaster

LineThree == PanUnknown18 \o Sep \o PanDiners \o Sep \o PanUnknown17

LineFour == PanJcb \o Sep \o PanUnionPay \o Sep \o PanMaster2 \o Sep \o PanVisa19

\* ten numbers on one line
LineTen == LineFour \o Sep \o LineThree \o Sep \o LineThree

\* eleven numbers on one line
LineEleven == LineFour \o Sep \o LineFour \o Sep \o LineThree

\* a file that opens and whose lines all decode
TextFile(lines) ==
    [kind |-> "file", openable |-> TRUE, lines |-> lines, bad_line |-> 0,
     entries |-> << >>, read_dir_ok |-> TRUE, bad_entry |-> 0]

\* a file that opens; bad_line is the 1-based number of its first line that
\* is not valid UTF-8
BinaryFile(lines, bad_line) ==
    [kind |-> "file", openable |-> TRUE, lines |-> lines, bad_line |-> bad_line,
     entries |-> << >>, read_dir_ok |-> TRUE, bad_entry |-> 0]

\* a file File::open fails on (permission denied)
LockedFile ==
    [kind |-> "file", openable |-> FALSE, lines |-> << >>, bad_line |-> 0,
     entries |-> << >>, read_dir_ok |-> TRUE, bad_entry |-> 0]

\* a path that does not exist: is_dir() is false and File::open fails
Missing ==
    [kind |-> "missing", openable |-> FALSE, lines |-> << >>, bad_line |-> 0,
     entries |-> << >>, read_dir_ok |-> TRUE, bad_entry |-> 0]

\* a directory: its entries in read_dir order; read_dir_ok is FALSE when
\* fs::read_dir fails; bad_entry is the 1-based index of the entry whose
\* read fails (0 when every entry reads)
Directory(entries, read_dir_ok, bad_entry) ==
    [kind |-> "dir", openable |-> FALSE, lines |-> << >>, bad_line |-> 0,
     entries |-> entries, read_dir_ok |-> read_dir_ok, bad_entry |-> bad_entry]

\* the file system the runs scan
FileSystem ==
    [ p \in {"tree", "tree/visa.txt", "tree/empty.txt", "tree/locked.txt",
             "amex.txt", "low3.txt", "med4.txt", "med10.txt", "high11.txt",
             "partial.bin", "noise.txt", "grouped.txt", "missing", "nest",
             "nest/one.txt", "nest/sub", "nest/sub/two.txt", "nest/sub/raw.bin",
             "sealed", "broken", "broken/a.txt", "broken/b.txt"} |->
        CASE p = "tree"             -> Directory(<< "tree/visa.txt", "tree/empty.txt",
                                                    "tree/locked.txt" >>, TRUE, 0)
          [] p = "tree/visa.txt"    -> TextFile(<< LineText, LineVisa >>)
          [] p = "tree/empty.txt"   -> TextFile(<< >>)
          [] p = "tree/locked.txt"  -> LockedFile
          [] p = "amex.txt"         -> TextFile(<< LineAmexGrouped >>)
          [] p = "low3.txt"         -> TextFile(<< LineThree >>)
          [] p = "med4.txt"         -> TextFile(<< LineFour >>)
          [] p = "med10.txt"        -> TextFile(<< LineTen >>)
          [] p = "high11.txt"       -> TextFile(<< LineEleven >>)
          [] p = "partial.bin"      -> BinaryFile(<< LineVisa13, << >>, LineText >>, 2)
          [] p = "noise.txt"        -> TextFile(<< LineBadZeros, LineTabsLong >>)
          [] p = "grouped.txt"      -> TextFile(<< LineVisaSpaces, LineTwoClose >>)
          [] p = "missing"          -> Missing
          [] p = "nest"             -> Directory(<< "nest/one.txt", "nest/sub" >>, TRUE, 0)
          [] p = "nest/one.txt"     -> TextFile(<< LineVisaDashes >>)
          [] p = "nest/sub"         -> Directory(<< "nest/sub/two.txt",
                                                    "nest/sub/raw.bin" >>, TRUE, 0)
          [] p = "nest/sub/two.txt" -> TextFile(<< LineText >>)
          [] p = "nest/sub/raw.bin" -> BinaryFile(<< << >>, LineMaster >>, 1)
          [] p = "sealed"           -> Directory(<< >>, FALSE, 0)
          [] p = "broken"           -> Directory(<< "broken/a.txt", "broken/b.txt" >>,
                                                 TRUE, 2)
          [] p = "broken/a.txt"     -> TextFile(<< LineVisa >>)
          [] p = "broken/b.txt"     -> TextFile(<< LineText >>) ]

\* the paths a run may be given on the command line
InputPaths ==
    {"tree", "tree/visa.txt", "amex.txt", "low3.txt", "med4.txt", "med10.txt",
     "high11.txt", "partial.bin", "noise.txt", "grouped.txt", "missing", "nest",
     "sealed", "broken"}

(***************************************************************************)
(* Bounds of the model                                                     *)
(***************************************************************************)
\* most input paths of one run
MaxInputs == 2

\* most steps the scan threads of one run take together
MaxSteps == 14

(***************************************************************************)
(* collect_files                                                           *)
(***************************************************************************)
IsDir(path) == FileSystem[path].kind = "dir"

RECURSIVE collect_files(_, _, _)
RECURSIVE CollectEntries(_, _, _, _)
\* io::Result<()> with the two &mut parameters: ok is FALSE for Err, files
\* and dir_count are the parameters' values on return
collect_files(path, files, dir_count) ==
    IF IsDir(path)
    THEN IF FileSystem[path].read_dir_ok
         THEN CollectEntries(path, 1, files, dir_count)
         ELSE [ok |-> FALSE, files |-> files, dir_count |-> dir_count]
    ELSE [ok |-> TRUE, files |-> Append(files, path), dir_count |-> dir_count]

\* the loop "for entry in fs::read_dir(path)?" from the i-th entry on
CollectEntries(dir, i, files, dir_count) ==
    IF i > Len(FileSystem[dir].entries)
    THEN [ok |-> TRUE, files |-> files, dir_count |-> dir_count]
    ELSE IF FileSystem[dir].bad_entry = i
    THEN [ok |-> FALSE, files |-> files, dir_count |-> dir_count]
    ELSE LET path == FileSystem[dir].entries[i]
         IN  IF IsDir(path)
             THEN LET r == collect_files(path, files, dir_count + 1)
                  IN  IF r.ok
                      THEN CollectEntries(dir, i + 1, r.files, r.dir_count)
                      ELSE r
             ELSE CollectEntries(dir, i + 1, Append(files, path), dir_count)

RECURSIVE CollectInputs(_, _, _, _)
\* main's loop "for input_path in input_paths" from the i-th path on
CollectInputs(input_paths, i, files_to_scan, total_directories) ==
    IF i > Len(input_paths)
    THEN [ok |-> TRUE, files |-> files_to_scan, dir_count |-> total_directories]
    ELSE LET path == input_paths[i]
             dirs == IF IsDir(path) THEN total_directories + 1
                     ELSE total_directories
             r    == collect_files(path, files_to_scan, dirs)
         IN  IF r.ok THEN CollectInputs(input_paths, i + 1, r.files, r.dir_count)
             ELSE r

(***************************************************************************)
(* What a file yields when it is scanned alone                             *)
(***************************************************************************)
\* the lines scan_file reads before it stops: all of them, or those before
\* the first undecodable line
ReadableLines(path) ==
    LET f == FileSystem[path]
    IN  IF ~f.openable THEN 0
        ELSE IF f.bad_line > 0 THEN f.bad_line - 1
        ELSE Len(f.lines)

\* what ReadLine finds on each line scan_file reads of each file: the
\* CardMatch records of the line, in the order they are pushed
LineTable ==
    [ p \in DOMAIN FileSystem |->
        [ n \in 1..ReadableLines(p) |-> LineMatches(p, n, FileSystem[p].lines[n]) ] ]

RECURSIVE Concat(_, _)
\* the first n sequences of seqs, concatenated
Concat(seqs, n) == IF n = 0 THEN << >> ELSE Concat(seqs, n - 1) \o seqs[n]

\* every CardMatch a scan of the file pushes, in the order of the pushes
FileMatches == [ p \in DOMAIN FileSystem |-> Concat(LineTable[p], ReadableLines(p)) ]

\* every CardMatch a scan of some file of the catalogue pushes
AllCards ==
    UNION { { FileMatches[p][k] : k \in 1..Len(FileMatches[p]) } :
            p \in DOMAIN FileSystem }

\* what mask_line_content returns for each of them
MaskedLines == [ card \in AllCards |-> mask_line_content(card) ]

\* the steps one thread takes to scan the file: the open, one per line it
\* reads (the undecodable one included), one per record it pushes, and the
\* end of the file when it gets there
ThreadSteps(path) ==
    LET f == FileSystem[path]
    IN  IF ~f.openable THEN 1
        ELSE IF f.bad_line > 0 THEN 1 + f.bad_line + Len(FileMatches[path])
        ELSE 1 + Len(f.lines) + Len(FileMatches[path]) + 1

RECURSIVE StepsOf(_)
StepsOf(files) ==
    IF files = << >> THEN 0 ELSE ThreadSteps(Head(files)) + StepsOf(Tail(files))

\* the input lists of the runs: one to MaxInputs paths, the same path
\* possibly more than once, scanned in at most MaxSteps thread steps
InputLists ==
    { l \in UNION { [1..n -> InputPaths] : n \in 1..MaxInputs } :
        LET r == CollectInputs(l, 1, << >>, 0)
        IN  r.ok => StepsOf(r.files) <= MaxSteps }

(***************************************************************************)
(* The state of one run of main                                            *)
(***************************************************************************)
VARIABLES
    input_paths,        \* the paths of --input
    generate_summary,   \* whether --summary (or an html/pdf format) was given
    mainPc,             \* where main is: "collect", "scan", "output", "done",
                        \* "error" (main returned Err) or "panicked"
    files_to_scan,      \* Vec<PathBuf>: the scan targets
    total_directories,  \* usize
    summary,            \* Option<ScanSummary>
    results,            \* Mutex<Vec<CardMatch>>
    files_with_cards,   \* Mutex<HashSet<String>>
    skipped_files,      \* Mutex<Vec<String>>
    task,               \* the spawned threads, in spawn order
    joined,             \* how many handles main has joined
    output,             \* the rows main has written, one per CardMatch
    mutex,              \* the thread that holds each Mutex, or Free
    call                \* one direct use of the pure functions: the argument
                        \* and what each function returned for it

vars == << input_paths, generate_summary, mainPc, files_to_scan,
           total_directories, summary, results, files_with_cards,
           skipped_files, task, joined, output, mutex, call >>

\* Option::None for the summary
NoSummary == [some |-> FALSE]

\* ScanSummary::new(); the date, the duration and the size in MB are left out
NewSummary ==
    [ some                      |-> TRUE,
      total_files_scanned       |-> 0,
      total_directories_scanned |-> 0,
      total_files_with_cards    |-> 0,
      total_cards_found         |-> 0,
      clean_files               |-> 0,
      card_type_counts          |-> EmptyBag,
      files_by_risk             |-> [high |-> << >>, medium |-> << >>, low |-> << >>],
      skipped_files             |-> << >>,
      all_scanned_files         |-> << >> ]

\* no thread holds the Mutex
Free == 0

\* the main thread as the holder of a Mutex; the t-th spawned thread is t
MainThread == -1

\* results, files_with_cards and skipped_files of lines 783-789, and the
\* Mutex around the ScanSummary
Mutexes == {"results", "files_with_cards", "skipped_files", "summary"}

\* no function has been applied to number yet
NewCall(number) ==
    [ number |-> number,
      luhn_done |-> FALSE, luhn |-> FALSE,
      brand_done |-> FALSE, brand |-> None,
      match_done |-> FALSE, matches |-> << >> ]

\* the state main starts from, for the given command line
MainStart(paths, with_summary) ==
    /\ input_paths = paths
    /\ generate_summary = with_summary
    /\ mainPc = "collect"
    /\ files_to_scan = << >>
    /\ total_directories = 0
    /\ summary = IF with_summary THEN NewSummary ELSE NoSummary
    /\ results = << >>
    /\ files_with_cards = {}
    /\ skipped_files = << >>
    /\ task = << >>
    /\ joined = 0
    /\ output = << >>
    /\ mutex = [m \in Mutexes |-> Free]

Init ==
    /\ \E paths \in InputLists, with_summary \in BOOLEAN :
         MainStart(paths, with_summary)
    /\ call = NewCall(<< >>)

(***************************************************************************)
(* main, lines 746-780: collect the targets, fill in the summary           *)
(***************************************************************************)
\* the "?" of line 755: an Err of collect_files returns from main
CollectFailed ==
    /\ mainPc = "collect"
    /\ ~CollectInputs(input_paths, 1, << >>, 0).ok
    /\ mainPc' = "error"
    /\ UNCHANGED << mutex, call, output, input_paths, generate_summary, files_to_scan,
                    total_directories, summary, results, files_with_cards,
                    skipped_files, task, joined >>

CollectFiles ==
    /\ mainPc = "collect"
    /\ LET r == CollectInputs(input_paths, 1, << >>, 0)
       IN  /\ r.ok
           /\ files_to_scan' = r.files
           /\ total_directories' = r.dir_count
           /\ summary' = IF summary.some
                         THEN [summary EXCEPT
                                 !.total_files_scanned = Len(r.files),
                                 !.total_directories_scanned = r.dir_count,
                                 !.all_scanned_files = r.files]
                         ELSE summary
    /\ mainPc' = "scan"
    /\ UNCHANGED << mutex, call, output, input_paths, generate_summary, results, files_with_cards,
                    skipped_files, task, joined >>

(***************************************************************************)
(* main, lines 791-806: one thread per target                              *)
(***************************************************************************)
\* a thread at the start of scan_file
NewTask == [pc |-> "open", line_number |-> 0, pending |-> << >>, found_card |-> FALSE]

SpawnTask ==
    /\ mainPc = "scan"
    /\ Len(task) < Len(files_to_scan)
    /\ task' = Append(task, NewTask)
    /\ UNCHANGED << mutex, call, output, input_paths, generate_summary, mainPc, files_to_scan,
                    total_directories, summary, results, files_with_cards,
                    skipped_files, joined >>

(***************************************************************************)
(* scan_file, run by thread t on files_to_scan[t]                          *)
(***************************************************************************)
\* a push without the lock: the write of a thread overwrites the element
\* another thread has just written
PushResultUnlocked(vec, match_details) ==
    IF vec # << >> /\ vec[Len(vec)].file_path # match_details.file_path
    THEN [vec EXCEPT ![Len(vec)] = match_details]
    ELSE Append(vec, match_details)

\* results_vec.push(match_details) under results.lock()
PushResult(vec, match_details) == Append(vec, match_details)

\* a skip that is recorded by scan_file and again by the closure of main
PushSkippedTwice(vec, path) == Append(Append(vec, path), path)

\* skipped.push(path) under skipped_files.lock()
PushSkipped(vec, path) == Append(vec, path)

\* an insertion that also records a path that is no scan target
InsertFileAndStray(set, path) == set \cup {path, "stray"}

\* files_with_cards_set.insert(path) under files_with_cards.lock()
InsertFile(set, path) == set \cup {path}

\* File::open fails: the path is pushed to skipped_files, Ok(()) is returned
OpenFailed(t) ==
    /\ t \in 1..Len(task)
    /\ task[t].pc = "open"
    /\ ~FileSystem[files_to_scan[t]].openable
    /\ skipped_files' = PushSkipped(skipped_files, files_to_scan[t])
    /\ task' = [task EXCEPT ![t].pc = "done"]
    /\ UNCHANGED << mutex, call, output, input_paths, generate_summary, mainPc, files_to_scan,
                    total_directories, summary, results, files_with_cards, joined >>

\* File::open succeeds: the reader and the pattern are set up
OpenFile(t) ==
    /\ t \in 1..Len(task)
    /\ task[t].pc = "open"
    /\ FileSystem[files_to_scan[t]].openable
    /\ task' = [task EXCEPT ![t].pc = "lines"]
    /\ UNCHANGED << mutex, call, output, input_paths, generate_summary, mainPc, files_to_scan,
                    total_directories, summary, results, files_with_cards,
                    skipped_files, joined >>

\* the next line decodes: its captures are validated and classified; the
\* records they yield wait in pending, each for its own results.lock()
ReadLine(t) ==
    /\ t \in 1..Len(task)
    /\ task[t].pc = "lines"
    /\ task[t].pending = << >>
    /\ LET path == files_to_scan[t]
           f    == FileSystem[path]
           n    == task[t].line_number + 1
       IN  /\ n <= Len(f.lines)
           /\ f.bad_line # n
           /\ task' = [task EXCEPT ![t].line_number = n,
                                   ![t].pending = LineTable[path][n]]
    /\ UNCHANGED << mutex, call, output, input_paths, generate_summary, mainPc, files_to_scan,
                    total_directories, summary, results, files_with_cards,
                    skipped_files, joined >>

\* a decode failure that leaves the loop with break where the code
\* returns: the path is skipped and then also inserted if a card was found
ReadLineFailedThenInsert(t) ==
    /\ t \in 1..Len(task)
    /\ task[t].pc = "lines"
    /\ task[t].pending = << >>
    /\ LET path == files_to_scan[t]
           f    == FileSystem[path]
           n    == task[t].line_number + 1
       IN  /\ n <= Len(f.lines)
           /\ f.bad_line = n
           /\ skipped_files' = Append(skipped_files, path)
           /\ files_with_cards' = IF task[t].found_card
                                  THEN files_with_cards \cup {path}
                                  ELSE files_with_cards
           /\ task' = [task EXCEPT ![t].line_number = n, ![t].pc = "done"]
    /\ UNCHANGED << mutex, call, output, input_paths, generate_summary, mainPc, files_to_scan,
                    total_directories, summary, results, joined >>

\* the next line is not valid UTF-8: the path is pushed to skipped_files and
\* scan_file returns Ok(()), past the insertion into files_with_cards
ReadLineFailed(t) ==
    /\ t \in 1..Len(task)
    /\ task[t].pc = "lines"
    /\ task[t].pending = << >>
    /\ LET path == files_to_scan[t]
           f    == FileSystem[path]
           n    == task[t].line_number + 1
       IN  /\ n <= Len(f.lines)
           /\ f.bad_line = n
           /\ skipped_files' = PushSkipped(skipped_files, path)
           /\ task' = [task EXCEPT ![t].line_number = n, ![t].pc = "done"]
    /\ UNCHANGED << mutex, call, output, input_paths, generate_summary, mainPc, files_to_scan,
                    total_directories, summary, results, files_with_cards, joined >>

\* one CardMatch is pushed to results; found_card = true
PushMatch(t) ==
    /\ t \in 1..Len(task)
    /\ task[t].pc = "lines"
    /\ task[t].pending # << >>
    /\ results' = PushResult(results, Head(task[t].pending))
    /\ task' = [task EXCEPT ![t].pending = Tail(@), ![t].found_card = TRUE]
    /\ UNCHANGED << mutex, call, output, input_paths, generate_summary, mainPc, files_to_scan,
                    total_directories, summary, files_with_cards,
                    skipped_files, joined >>

\* the lines are exhausted: the path joins files_with_cards if found_card
EndOfFile(t) ==
    /\ t \in 1..Len(task)
    /\ task[t].pc = "lines"
    /\ task[t].pending = << >>
    /\ task[t].line_number = Len(FileSystem[files_to_scan[t]].lines)
    /\ files_with_cards' = IF task[t].found_card
                           THEN InsertFile(files_with_cards, files_to_scan[t])
                           ELSE files_with_cards
    /\ task' = [task EXCEPT ![t].pc = "done"]
    /\ UNCHANGED << mutex, call, output, input_paths, generate_summary, mainPc, files_to_scan,
                    total_directories, summary, results, skipped_files, joined >>

(***************************************************************************)
(* main, lines 808-811: join every handle, in spawn order                  *)
(***************************************************************************)
\* a join that returns for a spawned thread whether or not it has finished
JoinWithoutWaiting(h) == h <= Len(task)

\* whether handle.join() of the h-th handle can return
Joinable(h) == task[h].pc = "done"

JoinTask ==
    /\ mainPc = "scan"
    /\ Len(task) = Len(files_to_scan)
    /\ joined < Len(task)
    /\ Joinable(joined + 1)
    /\ joined' = joined + 1
    /\ UNCHANGED << mutex, call, output, input_paths, generate_summary, mainPc, files_to_scan,
                    total_directories, summary, results, files_with_cards,
                    skipped_files, task >>

(***************************************************************************)
(* main, lines 813-858: the summary                                        *)
(***************************************************************************)
HighAbove == 10     \* cards_in_file > 10
MediumAbove == 3    \* cards_in_file > 3

\* the assessment with >= in place of > for the high bucket
RiskLevelHighFromTen(cards_in_file) ==
    IF cards_in_file >= HighAbove THEN "high"
    ELSE IF cards_in_file > MediumAbove THEN "medium"
    ELSE "low"

\* the "Simple risk assessment" of lines 837-843
RiskLevel(cards_in_file) ==
    IF cards_in_file > HighAbove THEN "high"
    ELSE IF cards_in_file > MediumAbove THEN "medium"
    ELSE "low"

\* results_vec.iter().filter(|card| card.file_path == *file_path).count()
CardsInFile(results_vec, file_path) ==
    Cardinality({ i \in 1..Len(results_vec) : results_vec[i].file_path = file_path })

\* ScanSummary::add_file_by_risk: the three keys exist from new() on
add_file_by_risk(files_by_risk, risk_level, file_path) ==
    [files_by_risk EXCEPT ![risk_level] = Append(@, file_path)]

RECURSIVE increment_card_types(_, _)
\* the loop of increment_card_type over the first n results
increment_card_types(results_vec, n) ==
    IF n = 0 THEN EmptyBag
    ELSE increment_card_types(results_vec, n - 1) (+) SetToBag({results_vec[n].brand})

RECURSIVE AssessRisk(_, _, _)
\* the loop "for file_path in &*files_with_cards_set", the set iterated in
\* the order given
AssessRisk(files_by_risk, order, results_vec) ==
    IF order = << >> THEN files_by_risk
    ELSE AssessRisk(add_file_by_risk(files_by_risk,
                                     RiskLevel(CardsInFile(results_vec, Head(order))),
                                     Head(order)),
                    Tail(order), results_vec)

\* the orders in which a HashSet may be iterated: every order of its elements
IterationOrders(set) ==
    { order \in [1..Cardinality(set) -> set] :
        \A i, j \in 1..Cardinality(set) : order[i] = order[j] => i = j }

\* total_files_scanned - total_files_with_cards on usize: below zero the
\* subtraction panics (debug build) or wraps (release build); -1 stands for
\* either
UsizeSub(a, b) == IF a >= b THEN a - b ELSE -1

\* every handle has been joined
AllJoined == Len(task) = Len(files_to_scan) /\ joined = Len(task)

Summarize ==
    /\ mainPc = "scan"
    /\ AllJoined
    /\ summary.some
    /\ \E order \in IterationOrders(files_with_cards) :
         summary' =
           [summary EXCEPT
              !.total_cards_found = Len(results),
              !.card_type_counts = increment_card_types(results, Len(results)),
              !.total_files_with_cards = Cardinality(files_with_cards),
              !.clean_files = UsizeSub(summary.total_files_scanned,
                                       Cardinality(files_with_cards)),
              !.files_by_risk = AssessRisk(summary.files_by_risk, order, results),
              !.skipped_files = skipped_files]
    /\ mainPc' = "output"
    /\ UNCHANGED << mutex, call, output, input_paths, generate_summary, files_to_scan,
                    total_directories, results, files_with_cards,
                    skipped_files, task, joined >>

\* no summary was asked for: main goes on to the output
NoSummaryStep ==
    /\ mainPc = "scan"
    /\ AllJoined
    /\ ~summary.some
    /\ mainPc' = "output"
    /\ UNCHANGED << mutex, call, output, input_paths, generate_summary, files_to_scan,
                    total_directories, summary, results, files_with_cards,
                    skipped_files, task, joined >>

\* one row of the card listing: the csv record, or the json object, of a
\* CardMatch
OutputRow(card, show_full) ==
    [ brand        |-> card.brand,
      length       |-> card.length,
      bin          |-> card.bin,
      last_four    |-> card.last_four,
      masked       |-> ~show_full,
      pan          |-> IF show_full THEN card.full_pan ELSE masked_pan(card),
      file_path    |-> card.file_path,
      line_number  |-> card.line_number,
      line_content |-> IF show_full THEN card.line_content
                       ELSE MaskedLines[card].line ]

RECURSIVE WriteRows(_, _, _, _)
\* the loop over results_vec: rows are written in store order until
\* mask_line_content panics
WriteRows(results_vec, i, show_full, rows) ==
    IF i > Len(results_vec) THEN [panicked |-> FALSE, rows |-> rows]
    ELSE IF ~show_full /\ MaskedLines[results_vec[i]].panicked
    THEN [panicked |-> TRUE, rows |-> rows]
    ELSE WriteRows(results_vec, i + 1, show_full,
                   Append(rows, OutputRow(results_vec[i], show_full)))

\* main writes the card listing, masked unless --no-mask was given
Output ==
    /\ mainPc = "output"
    /\ \E show_full \in BOOLEAN :
         LET written == WriteRows(results, 1, show_full, << >>)
         IN  /\ output' = written.rows
             /\ mainPc' = IF written.panicked THEN "panicked" ELSE "done"
    /\ UNCHANGED << mutex, call, input_paths, generate_summary, files_to_scan,
                    total_directories, summary, results, files_with_cards,
                    skipped_files, task, joined >>

Next ==
    \/ CollectFailed
    \/ CollectFiles
    \/ SpawnTask
    \/ \E t \in 1..Len(task) : OpenFailed(t)
    \/ \E t \in 1..Len(task) : OpenFile(t)
    \/ \E t \in 1..Len(task) : ReadLine(t)
    \/ \E t \in 1..Len(task) : ReadLineFailed(t)
    \/ \E t \in 1..Len(task) : PushMatch(t)
    \/ \E t \in 1..Len(task) : EndOfFile(t)
    \/ JoinTask
    \/ Summarize
    \/ NoSummaryStep
    \/ Output

Spec == Init /\ [][Next]_vars

(***************************************************************************)
(* The pure functions applied directly: is_valid_luhn and                  *)
(* identify_card_brand on one argument drawn from Numbers, in either order *)
(***************************************************************************)
\* longest padded part of an argument
MaxNumberLen == 20

\* how the arguments start: nothing, the prefixes the rules of CARD_BRANDS
\* tell apart, prefixes next to them, non-digits, and the sample numbers
Prefixes ==
    { << >>, << 0 >>, << 4 >>, << 5, 0 >>, << 5, 1 >>, << 5, 5 >>, << 5, 6 >>,
      << 2, 1 >>, << 2, 2 >>, << 2, 7 >>, << 2, 8 >>, << 3, 4 >>, << 3, 7 >>,
      << 3, 5 >>, << 3, 0, 0 >>, << 3, 0, 5 >>, << 3, 0, 6 >>, << 3, 6 >>,
      << 3, 8 >>, << 3, 9 >>, << 6, 0, 1, 1 >>, << 6, 0, 1, 2 >>, << 6, 5 >>,
      << 6, 4, 3 >>, << 6, 4, 4 >>, << 6, 2 >>, << 9 >>, << LETTER >>,
      << 4, SPACE >>, << 4, LETTER >>, PanVisa, PanAmex, PanDiners, PanVisa19 }

Fillers == {0, 1, 9}

\* how the arguments end: nothing, a digit or a non-digit
Tails == { << >>, << LETTER >>, << DASH >> } \cup { << c >> : c \in Digits }

\* a prefix padded with a filler digit and cut to n characters, then a tail
Numbers ==
    { Take(p \o Repeat(f, n), n) \o t :
        p \in Prefixes, f \in Fillers, n \in 0..MaxNumberLen, t \in Tails }

CallInit ==
    /\ MainStart(<< "missing" >>, FALSE)
    /\ call \in { NewCall(number) : number \in Numbers }

CallLuhn ==
    /\ ~call.luhn_done
    /\ call' = [call EXCEPT !.luhn_done = TRUE, !.luhn = is_valid_luhn(call.number)]
    /\ UNCHANGED << mutex, input_paths, generate_summary, mainPc, files_to_scan,
                    total_directories, summary, results, files_with_cards,
                    skipped_files, task, joined, output >>

CallBrand ==
    /\ ~call.brand_done
    /\ call' = [call EXCEPT !.brand_done = TRUE,
                            !.brand = identify_card_brand(call.number)]
    /\ UNCHANGED << mutex, input_paths, generate_summary, mainPc, files_to_scan,
                    total_directories, summary, results, files_with_cards,
                    skipped_files, task, joined, output >>

\* the file path of the records of these calls
CallPath == "call.txt"

\* the body of the captures loop of scan_file for the string as the
\* captured text: the CardMatch it makes of it, if any
CallMatch ==
    /\ ~call.match_done
    /\ call' = [call EXCEPT !.match_done = TRUE,
                            !.matches = MatchOfCapture(call.number, CallPath, 1,
                                                       call.number)]
    /\ UNCHANGED << mutex, input_paths, generate_summary, mainPc, files_to_scan,
                    total_directories, summary, results, files_with_cards,
                    skipped_files, task, joined, output >>

CallNext == CallLuhn \/ CallBrand \/ CallMatch

SpecCalls == CallInit /\ [][CallNext]_vars

(***************************************************************************)
(* The extraction step of scan_file on its own: one line, and the          *)
(* candidates card_pattern.captures_iter finds in it                       *)
(***************************************************************************)
MinRunLen == 10

MaxRunLen == 22

\* the separator of a run; NoSep stands for a run of digits only
NoSep == 0

\* a run of n characters: digits, with the separator sep after every four
\* of them when there is one; the last character is a digit
RunOf(n, sep) ==
    [ i \in 1..n |-> IF sep # NoSep /\ i % 5 = 0 /\ i < n THEN sep ELSE (i % 9) + 1 ]

\* the lines: a run of MinRunLen..MaxRunLen characters, at the start of
\* the line or behind text, at the end of the line or in front of text
Lines ==
    { pre \o RunOf(n, sep) \o post :
        pre \in { << >>, << LETTER >>, << LETTER, SPACE >> },
        n \in MinRunLen..MaxRunLen,
        sep \in { NoSep, SPACE, DASH, TAB },
        post \in { << >>, << LETTER >>, << SPACE, LETTER >> } }

NewExtract(line) == [line |-> line, extract_done |-> FALSE, candidates |-> << >>]

ExtractInit ==
    /\ MainStart(<< "missing" >>, FALSE)
    /\ call \in { NewExtract(line) : line \in Lines }

\* for cap in card_pattern.captures_iter(&line): matched = cap.get(1)
CallExtract ==
    /\ ~call.extract_done
    /\ call' = [call EXCEPT !.extract_done = TRUE,
                            !.candidates = captures_iter(call.line)]
    /\ UNCHANGED << mutex, input_paths, generate_summary, mainPc, files_to_scan,
                    total_directories, summary, results, files_with_cards,
                    skipped_files, task, joined, output >>

ExtractNext == CallExtract

SpecLines == ExtractInit /\ [][ExtractNext]_vars

(***************************************************************************)
(* The masking of one CardMatch on its own: a line of a file, the          *)
(* CardMatch records scan_file makes of it, and what mask_line_content     *)
(* returns for one of them                                                 *)
(***************************************************************************)
\* the Luhn-valid sample numbers, of every length from 13 to 19
SamplePans ==
    { PanVisa, PanVisa13, PanVisa19, PanMaster, PanMaster2, PanAmex,
      PanDiscover, PanJcb, PanDiners, PanUnionPay, PanUnknown17, PanUnknown18 }

\* the ways a number is written: "plain", in groups of four with the
\* separator (the last group is what is left), or in three groups of four
\* and one group with the rest
Written(pan, how, sep) ==
    CASE how = "plain"  -> pan
      [] how = "fours"  -> Grouped(pan, sep)
      [] how = "tailed" -> Grouped(SubSeq(pan, 1, 12), sep) \o << sep >>
                              \o SubSeq(pan, 13, Len(pan))

\* the lines: one number, written in one of the ways, alone or behind a
\* label, and alone or in front of text or of a second number
MaskLines ==
    { pre \o Written(pan, how, sep) \o post :
        pre \in { << >>, Label },
        pan \in SamplePans,
        how \in { "plain", "fours", "tailed" },
        sep \in { SPACE, DASH },
        post \in { << >>, << LETTER >>, Sep \o PanVisa } }

\* the file path of the records of these lines
MaskPath == "line.txt"

\* one call: the records of a line and the index of the one that is masked
NewMask(matches, k) ==
    [ matches |-> matches, k |-> k, mask_done |-> FALSE,
      masked |-> [panicked |-> FALSE, line |-> << >>] ]

MaskInit ==
    /\ MainStart(<< "missing" >>, FALSE)
    /\ call \in UNION { { NewMask(LineMatches(MaskPath, 1, line), k) :
                            k \in 1..Len(LineMatches(MaskPath, 1, line)) } :
                        line \in MaskLines }

\* card.mask_line_content()
CallMask ==
    /\ ~call.mask_done
    /\ call' = [call EXCEPT !.mask_done = TRUE,
                            !.masked = mask_line_content(call.matches[call.k])]
    /\ UNCHANGED << mutex, input_paths, generate_summary, mainPc, files_to_scan,
                    total_directories, summary, results, files_with_cards,
                    skipped_files, task, joined, output >>

MaskNext == CallMask

SpecMask == MaskInit /\ [][MaskNext]_vars

(***************************************************************************)
(* The scan and the summary with every lock() as a step of its own: a      *)
(* thread asks for a Mutex, waits while another thread holds it, works     *)
(* under the guard, and drops the guard at the end of the block            *)
(***************************************************************************)
\* the input lists of these runs, those of InputLists over: a directory of
\* three files, files with one and with three cards, a file that stops
\* decoding, a directory that cannot be read
LockInputLists ==
    { l \in InputLists :
        \A i \in 1..Len(l) :
          l[i] \in {"tree", "tree/visa.txt", "low3.txt", "partial.bin", "sealed"} }

LockInit ==
    /\ \E paths \in LockInputLists, with_summary \in BOOLEAN :
         MainStart(paths, with_summary)
    /\ call = NewCall(<< >>)

\* lock() returns at once only if no thread holds the Mutex; a thread that
\* holds it already waits for itself
CanLock(m) == mutex[m] = Free

\* the MutexGuard that lock() returns to the thread
Lock(held, m, thread) == [held EXCEPT ![m] = thread]

\* a guard that is kept past the end of its block
KeepLocked(held, m) == held

\* the guard goes out of scope at the end of the "if let" block
Unlock(held, m) == [held EXCEPT ![m] = Free]

\* line 668: File::open failed, skipped_files.lock() returns
LockSkippedAtOpen(t) ==
    /\ t \in 1..Len(task)
    /\ task[t].pc = "open"
    /\ ~FileSystem[files_to_scan[t]].openable
    /\ CanLock("skipped_files")
    /\ mutex' = Lock(mutex, "skipped_files", t)
    /\ task' = [task EXCEPT ![t].pc = "skip"]
    /\ UNCHANGED << call, output, input_paths, generate_summary,
                    files_to_scan, total_directories, mainPc, summary, results, files_with_cards,
                    skipped_files, joined >>

\* line 651: the next line is not valid UTF-8, skipped_files.lock() returns
LockSkippedAtLine(t) ==
    /\ t \in 1..Len(task)
    /\ task[t].pc = "lines"
    /\ task[t].pending = << >>
    /\ LET f == FileSystem[files_to_scan[t]]
           n == task[t].line_number + 1
       IN  /\ n <= Len(f.lines)
           /\ f.bad_line = n
           /\ task' = [task EXCEPT ![t].line_number = n, ![t].pc = "skip"]
    /\ CanLock("skipped_files")
    /\ mutex' = Lock(mutex, "skipped_files", t)
    /\ UNCHANGED << call, output, input_paths, generate_summary,
                    files_to_scan, total_directories, mainPc, summary, results, files_with_cards,
                    skipped_files, joined >>

\* lines 652-654 and 669-671: the push, the end of the block, Ok(())
SkipAndReturn(t) ==
    /\ t \in 1..Len(task)
    /\ task[t].pc = "skip"
    /\ skipped_files' = PushSkipped(skipped_files, files_to_scan[t])
    /\ mutex' = Unlock(mutex, "skipped_files")
    /\ task' = [task EXCEPT ![t].pc = "done"]
    /\ UNCHANGED << call, output, input_paths, generate_summary,
                    files_to_scan, total_directories, mainPc, summary, results, files_with_cards,
                    joined >>

\* line 639: results.lock() returns for the next record of the line
LockResults(t) ==
    /\ t \in 1..Len(task)
    /\ task[t].pc = "lines"
    /\ task[t].pending # << >>
    /\ CanLock("results")
    /\ mutex' = Lock(mutex, "results", t)
    /\ task' = [task EXCEPT ![t].pc = "push"]
    /\ UNCHANGED << call, output, input_paths, generate_summary,
                    files_to_scan, total_directories, mainPc, summary, results, files_with_cards,
                    skipped_files, joined >>

\* lines 640-643: the push, the end of the block, found_card = true
PushAndUnlock(t) ==
    /\ t \in 1..Len(task)
    /\ task[t].pc = "push"
    /\ results' = PushResult(results, Head(task[t].pending))
    /\ mutex' = Unlock(mutex, "results")
    /\ task' = [task EXCEPT ![t].pending = Tail(@), ![t].found_card = TRUE,
                            ![t].pc = "lines"]
    /\ UNCHANGED << call, output, input_paths, generate_summary,
                    files_to_scan, total_directories, mainPc, summary, files_with_cards,
                    skipped_files, joined >>

\* lines 659-660: the lines are exhausted and a card was found,
\* files_with_cards.lock() returns
LockFilesWithCards(t) ==
    /\ t \in 1..Len(task)
    /\ task[t].pc = "lines"
    /\ task[t].pending = << >>
    /\ task[t].line_number = Len(FileSystem[files_to_scan[t]].lines)
    /\ task[t].found_card
    /\ CanLock("files_with_cards")
    /\ mutex' = Lock(mutex, "files_with_cards", t)
    /\ task' = [task EXCEPT ![t].pc = "insert"]
    /\ UNCHANGED << call, output, input_paths, generate_summary,
                    files_to_scan, total_directories, mainPc, summary, results, files_with_cards,
                    skipped_files, joined >>

\* lines 661-665: the insertion, the end of the block, Ok(())
InsertAndReturn(t) ==
    /\ t \in 1..Len(task)
    /\ task[t].pc = "insert"
    /\ files_with_cards' = InsertFile(files_with_cards, files_to_scan[t])
    /\ mutex' = Unlock(mutex, "files_with_cards")
    /\ task' = [task EXCEPT ![t].pc = "done"]
    /\ UNCHANGED << call, output, input_paths, generate_summary,
                    files_to_scan, total_directories, mainPc, summary, results, skipped_files,
                    joined >>

\* lines 659 and 665: the lines are exhausted and no card was found
ReturnClean(t) ==
    /\ t \in 1..Len(task)
    /\ task[t].pc = "lines"
    /\ task[t].pending = << >>
    /\ task[t].line_number = Len(FileSystem[files_to_scan[t]].lines)
    /\ ~task[t].found_card
    /\ task' = [task EXCEPT ![t].pc = "done"]
    /\ UNCHANGED << call, output, input_paths, generate_summary,
                    files_to_scan, total_directories, mainPc, summary, results, files_with_cards,
                    skipped_files, joined, mutex >>

\* the steps of the t-th thread
TaskStep(t) ==
    \/ OpenFile(t)
    \/ LockSkippedAtOpen(t)
    \/ ReadLine(t)
    \/ LockSkippedAtLine(t)
    \/ SkipAndReturn(t)
    \/ LockResults(t)
    \/ PushAndUnlock(t)
    \/ LockFilesWithCards(t)
    \/ InsertAndReturn(t)
    \/ ReturnClean(t)

\* line 815: summary_arc.lock() returns
LockSummary ==
    /\ mainPc = "scan"
    /\ AllJoined
    /\ summary.some
    /\ CanLock("summary")
    /\ mutex' = Lock(mutex, "summary", MainThread)
    /\ mainPc' = "summary"
    /\ UNCHANGED << call, output, input_paths, generate_summary,
                    files_to_scan, total_directories, summary, results, files_with_cards,
                    skipped_files, task, joined >>

\* line 816: results.lock() returns
LockResultsToCount ==
    /\ mainPc = "summary"
    /\ CanLock("results")
    /\ mutex' = Lock(mutex, "results", MainThread)
    /\ mainPc' = "count"
    /\ UNCHANGED << call, output, input_paths, generate_summary,
                    files_to_scan, total_directories, summary, results, files_with_cards,
                    skipped_files, task, joined >>

\* lines 817-823: the cards and the brands are counted, the block ends
CountCards ==
    /\ mainPc = "count"
    /\ summary' = [summary EXCEPT
                     !.total_cards_found = Len(results),
                     !.card_type_counts = increment_card_types(results, Len(results))]
    /\ mutex' = Unlock(mutex, "results")
    /\ mainPc' = "files"
    /\ UNCHANGED << call, output, input_paths, generate_summary,
                    files_to_scan, total_directories, results, files_with_cards, skipped_files,
                    task, joined >>

\* lines 825-827: files_with_cards.lock() returns, the files are counted
LockFilesToAssess ==
    /\ mainPc = "files"
    /\ CanLock("files_with_cards")
    /\ mutex' = Lock(mutex, "files_with_cards", MainThread)
    /\ summary' = [summary EXCEPT
                     !.total_files_with_cards = Cardinality(files_with_cards),
                     !.clean_files = UsizeSub(summary.total_files_scanned,
                                              Cardinality(files_with_cards))]
    /\ mainPc' = "risk"
    /\ UNCHANGED << call, output, input_paths, generate_summary,
                    files_to_scan, total_directories, results, files_with_cards, skipped_files,
                    task, joined >>

\* the files the loop of line 829 has not come to yet: those in no bucket
Unassessed ==
    { file_path \in files_with_cards :
        \A level \in DOMAIN summary.files_by_risk :
          \A i \in 1..Len(summary.files_by_risk[level]) :
            summary.files_by_risk[level][i] # file_path }

\* lines 829-831: the loop has a next file, results.lock() returns
LockResultsToAssess ==
    /\ mainPc = "risk"
    /\ Unassessed # {}
    /\ CanLock("results")
    /\ mutex' = Lock(mutex, "results", MainThread)
    /\ mainPc' = "assess"
    /\ UNCHANGED << call, output, input_paths, generate_summary,
                    files_to_scan, total_directories, summary, results, files_with_cards,
                    skipped_files, task, joined >>

\* lines 832-846: the file the iteration of the HashSet yields next is
\* assessed, the block ends
AssessFile ==
    /\ mainPc = "assess"
    /\ \E file_path \in Unassessed :
         summary' = [summary EXCEPT
                       !.files_by_risk =
                          add_file_by_risk(@, RiskLevel(CardsInFile(results, file_path)),
                                           file_path)]
    /\ mutex' = Unlock(mutex, "results")
    /\ mainPc' = "risk"
    /\ UNCHANGED << call, output, input_paths, generate_summary,
                    files_to_scan, total_directories, results, files_with_cards, skipped_files,
                    task, joined >>

\* line 848: the loop is over, the block of files_with_cards_set ends
UnlockFilesWithCards ==
    /\ mainPc = "risk"
    /\ Unassessed = {}
    /\ mutex' = Unlock(mutex, "files_with_cards")
    /\ mainPc' = "skipped"
    /\ UNCHANGED << call, output, input_paths, generate_summary,
                    files_to_scan, total_directories, summary, results, files_with_cards,
                    skipped_files, task, joined >>

\* line 850: skipped_files.lock() returns
LockSkippedToCopy ==
    /\ mainPc = "skipped"
    /\ CanLock("skipped_files")
    /\ mutex' = Lock(mutex, "skipped_files", MainThread)
    /\ mainPc' = "copy"
    /\ UNCHANGED << call, output, input_paths, generate_summary,
                    files_to_scan, total_directories, summary, results, files_with_cards,
                    skipped_files, task, joined >>

\* lines 851-857: the copy, the end of the block, the end of the block of
\* the summary
CopySkipped ==
    /\ mainPc = "copy"
    /\ summary' = [summary EXCEPT !.skipped_files = skipped_files]
    /\ mutex' = Unlock(Unlock(mutex, "skipped_files"), "summary")
    /\ mainPc' = "output"
    /\ UNCHANGED << call, output, input_paths, generate_summary,
                    files_to_scan, total_directories, results, files_with_cards, skipped_files,
                    task, joined >>

\* the steps of the main thread
MainStep ==
    \/ CollectFailed
    \/ CollectFiles
    \/ SpawnTask
    \/ JoinTask
    \/ LockSummary
    \/ LockResultsToCount
    \/ CountCards
    \/ LockFilesToAssess
    \/ LockResultsToAssess
    \/ AssessFile
    \/ UnlockFilesWithCards
    \/ LockSkippedToCopy
    \/ CopySkipped
    \/ NoSummaryStep
    \/ Output

LockNext ==
    \/ MainStep
    \/ \E t \in 1..Len(task) : OpenFile(t)
    \/ \E t \in 1..Len(task) : LockSkippedAtOpen(t)
    \/ \E t \in 1..Len(task) : ReadLine(t)
    \/ \E t \in 1..Len(task) : LockSkippedAtLine(t)
    \/ \E t \in 1..Len(task) : SkipAndReturn(t)
    \/ \E t \in 1..Len(task) : LockResults(t)
    \/ \E t \in 1..Len(task) : PushAndUnlock(t)
    \/ \E t \in 1..Len(task) : LockFilesWithCards(t)
    \/ \E t \in 1..Len(task) : InsertAndReturn(t)
    \/ \E t \in 1..Len(task) : ReturnClean(t)

\* the scheduler: a thread that can take a step takes one in the end, the
\* main thread and each of the threads a run may spawn
LockFairness ==
    /\ WF_vars(MainStep)
    /\ \A t \in 1..MaxOf({ Len(CollectInputs(l, 1, << >>, 0).files) :
                              l \in LockInputLists }) :
         WF_vars(TaskStep(t))

SpecLocks == LockInit /\ [][LockNext]_vars /\ LockFairness

(***************************************************************************)
(* Definitions the properties are stated with                              *)
(***************************************************************************)
AllDigits(s) == \A i \in 1..Len(s) : IsDigit(s[i])

RECURSIVE LuhnSumFromRight(_, _)
\* the Luhn sum of the k rightmost digits of s, by position: the digit at
\* the j-th place from the right is doubled iff j is even, and 9 is taken
\* off a double above 9
LuhnSumFromRight(s, k) ==
    IF k = 0 THEN 0
    ELSE LET d == s[Len(s) + 1 - k]
         IN  LuhnSumFromRight(s, k - 1)
             + (IF k % 2 = 1 THEN d
                ELSE IF 2 * d > 9 THEN 2 * d - 9 ELSE 2 * d)

\* s is a digit string whose Luhn sum is a positive multiple of 10
LuhnValid(s) ==
    /\ AllDigits(s)
    /\ LuhnSumFromRight(s, Len(s)) > 0
    /\ LuhnSumFromRight(s, Len(s)) % 10 = 0

\* the numbers of the catalogue's matches that are LuhnValid
LuhnValidPans == { pan \in { card.full_pan : card \in AllCards } : LuhnValid(pan) }

\* the scan has ended and main has gone through the summary step
Completed == mainPc \in {"output", "done", "panicked"}

\* the file paths that occur in the match list
PathsInResults == { results[i].file_path : i \in 1..Len(results) }

\* the elements of a sequence, as a set
Range(seq) == { seq[i] : i \in 1..Len(seq) }

RECURSIVE BagOfSeq(_, _)
\* the multiset of the first n elements of a sequence
BagOfSeq(seq, n) ==
    IF n = 0 THEN EmptyBag ELSE BagOfSeq(seq, n - 1) (+) SetToBag({seq[n]})

\* how often x occurs in a sequence
Occurrences(seq, x) == Cardinality({ i \in 1..Len(seq) : seq[i] = x })

\* no two targets are the same path
DistinctTargets ==
    \A i, j \in 1..Len(files_to_scan) :
        files_to_scan[i] = files_to_scan[j] => i = j

(***************************************************************************)
(* C1: for every completed scan with a summary, cleanFiles +               *)
(* filesWithCards + |skippedFiles| = filesScanned: every target is counted *)
(* in exactly one of the three groups, a target that cannot be opened or   *)
(* decoded as skipped and not as clean.                                    *)
(* The code sets clean_files = total_files_scanned -                       *)
(* total_files_with_cards, so every skipped target is counted as clean     *)
(* too, and the sum exceeds filesScanned as soon as one target is skipped. *)
(***************************************************************************)
C1_Partition ==
    (Completed /\ summary.some) =>
        summary.clean_files + summary.total_files_with_cards
            + Len(summary.skipped_files) = summary.total_files_scanned

(***************************************************************************)
(* C2: scanning N distinct files that each yield exactly one valid PAN     *)
(* ends with N records in the match list and N paths in the                *)
(* files-with-cards set, whatever the interleaving of the N threads.       *)
(* The code loses no insertion, but a file whose only PAN is followed by   *)
(* an undecodable line never reaches the insertion into files_with_cards   *)
(* (the defect of C8), so the set is smaller than N for such a file.       *)
(***************************************************************************)
SingleMatchTargets ==
    /\ DistinctTargets
    /\ \A t \in 1..Len(files_to_scan) : Len(FileMatches[files_to_scan[t]]) = 1

C2_SingleMatchFiles ==
    (Completed /\ SingleMatchTargets) =>
        /\ Len(results) = Len(files_to_scan)
        /\ Cardinality(files_with_cards) = Len(files_to_scan)
        /\ summary.some => summary.total_cards_found = Len(files_to_scan)

\* C2 for targets that decode to their end: the part of C2 that is about
\* the interleaving holds
C2_DecodableSingleMatchFiles ==
    ( /\ Completed
      /\ SingleMatchTargets
      /\ \A t \in 1..Len(files_to_scan) :
            FileSystem[files_to_scan[t]].bad_line = 0 ) =>
        /\ Len(results) = Len(files_to_scan)
        /\ Cardinality(files_with_cards) = Len(files_to_scan)

(***************************************************************************)
(* C3: in every reachable state, every CardMatch of the result store has a *)
(* full_pan of decimal digits only, length = |full_pan| with               *)
(* 13 <= length <= 19, and a full_pan that passes the Luhn checksum (it is *)
(* one of the numbers LuhnValid accepts).                                  *)
(***************************************************************************)
C3_StoredMatchesValid ==
    \A i \in 1..Len(results) :
        /\ AllDigits(results[i].full_pan)
        /\ results[i].length = Len(results[i].full_pan)
        /\ results[i].length >= 13
        /\ results[i].length <= 19
        /\ results[i].full_pan \in LuhnValidPans

\* the store holds a 13-digit and a 19-digit match
C3_Witness ==
    /\ \E i \in 1..Len(results) : results[i].length = 13
    /\ \E i \in 1..Len(results) : results[i].length = 19

(***************************************************************************)
(* C4: for every CardMatch produced by a scan, masked_pan() is bin, then   *)
(* (length - 10) 'X', then last_four, where bin is the first 6 characters  *)
(* of full_pan and last_four its last 4: masked_pan is as long as full_pan *)
(* and agrees with it on the first 6 and the last 4 positions              *)
(* (4532015112830366 -> 453201XXXXXX0366).                                 *)
(***************************************************************************)
C4_MaskedPan ==
    \A i \in 1..Len(results) :
        LET m    == results[i]
            mask == masked_pan(m)
            n    == Len(m.full_pan)
        IN  /\ m.bin = SubSeq(m.full_pan, 1, 6)
            /\ m.last_four = SubSeq(m.full_pan, n - 3, n)
            /\ Len(mask) = n
            /\ \A k \in 1..n :
                 mask[k] = IF k <= 6 \/ k > n - 4 THEN m.full_pan[k] ELSE MASKX
            /\ m.full_pan = PanVisa =>
                 mask = << 4, 5, 3, 2, 0, 1, MASKX, MASKX, MASKX, MASKX, MASKX,
                           MASKX, 0, 3, 6, 6 >>
            /\ \A r \in 1..Len(output) :
                 (output[r].masked /\ results[r] = m) =>
                    output[r].pan = m.bin \o [k \in 1..(m.length - 10) |-> MASKX]
                                          \o m.last_four

\* the masked listing has been written with a row for 4532015112830366
\* (6 masked characters) and a row for a match of 19 digits (9 masked)
C4_Witness ==
    /\ mainPc = "done"
    /\ \E r \in 1..Len(output) :
         /\ output[r].masked
         /\ results[r].full_pan = PanVisa
         /\ output[r].pan = << 4, 5, 3, 2, 0, 1, MASKX, MASKX, MASKX, MASKX,
                               MASKX, MASKX, 0, 3, 6, 6 >>
    /\ \E r \in 1..Len(output) :
         /\ output[r].masked
         /\ results[r].length = 19
         /\ Len(output[r].pan) = 19

(***************************************************************************)
(* C5: is_valid_luhn(s) is true iff s consists of decimal digits only and  *)
(* its Luhn sum (digits taken right to left, the rightmost not doubled,    *)
(* every second digit doubled with 9 subtracted when the double exceeds 9) *)
(* is greater than 0 and divisible by 10.  So the empty string, an         *)
(* all-zero string and a string with a non-digit are invalid,              *)
(* 4532015112830366 is valid and 4532015112830367 is not.                  *)
(* Checked under SpecCalls.                                                *)
(***************************************************************************)
C5_LuhnIff ==
    call.luhn_done =>
        /\ call.luhn = LuhnValid(call.number)
        /\ call.number = PanVisa => call.luhn
        /\ call.number = PanVisaBad => ~call.luhn
        /\ call.number = << >> => ~call.luhn
        /\ (\A i \in 1..Len(call.number) : call.number[i] = 0) => ~call.luhn
        /\ ~AllDigits(call.number) => ~call.luhn

\* is_valid_luhn has been applied to 4532015112830366 and returned true
C5_Witness == call.luhn_done /\ call.luhn /\ call.number = PanVisa

(***************************************************************************)
(* C6: identify_card_brand evaluates CARD_BRANDS in table order and        *)
(* returns the name of the first rule whose prefix pattern matches the     *)
(* string and whose length set contains its length; the catch-all          *)
(* "Unknown" is last, so "Unknown" is returned only when no specific rule  *)
(* matches, and every 16-digit string that starts with 4 is "Visa".  The   *)
(* result is a function of the argument, whatever was called before.       *)
(* Checked under SpecCalls.                                                *)
(***************************************************************************)
\* the i-th rule of the table accepts s
RuleMatches(i, s) ==
    /\ PatternMatches(CARD_BRANDS[i].pattern, s)
    /\ Len(s) \in CARD_BRANDS[i].lengths

C6_FirstMatchingRule ==
    call.brand_done =>
        LET s == StripSeparators(call.number)
            n == Len(CARD_BRANDS)
        IN  /\ \A i \in 1..n :
                 (call.brand = CARD_BRANDS[i].name) <=>
                    (RuleMatches(i, s) /\ \A j \in 1..(i - 1) : ~RuleMatches(j, s))
            /\ (call.brand = None) <=> (\A i \in 1..n : ~RuleMatches(i, s))
            /\ CARD_BRANDS[n].name = "Unknown"
            /\ call.brand = "Unknown" => \A j \in 1..(n - 1) : ~RuleMatches(j, s)
            /\ ( /\ AllDigits(call.number)
                 /\ Len(call.number) = 16
                 /\ call.number[1] = 4 ) => call.brand = "Visa"

\* identify_card_brand has been applied, after is_valid_luhn, to a string
\* of 16 digits that starts with 4, and returned "Visa"
C6_Witness ==
    /\ call.luhn_done
    /\ call.brand_done
    /\ AllDigits(call.number)
    /\ Len(call.number) = 16
    /\ call.number[1] = 4
    /\ call.brand = "Visa"

(***************************************************************************)
(* C7: after the summary step every file of the files-with-cards set is in *)
(* exactly one risk bucket, exactly once, and the bucket is a function of  *)
(* the number c of matches in the result store with that path: high if     *)
(* c > 10, medium if 4 <= c <= 10, low if 1 <= c <= 3.  No file with zero  *)
(* matches is in any bucket.                                               *)
(***************************************************************************)
\* how often the path is listed in the bucket
InBucket(bucket, path) == Occurrences(summary.files_by_risk[bucket], path)

C7_RiskBuckets ==
    (Completed /\ summary.some) =>
        \A f \in DOMAIN FileSystem :
            LET c      == Cardinality({ i \in 1..Len(results) : results[i].file_path = f })
                listed == InBucket("high", f) + InBucket("medium", f) + InBucket("low", f)
            IN  /\ f \in files_with_cards =>
                     /\ listed = 1
                     /\ c >= 1
                     /\ InBucket("high", f) = 1 <=> c > 10
                     /\ InBucket("medium", f) = 1 <=> (4 <= c /\ c <= 10)
                     /\ InBucket("low", f) = 1 <=> (1 <= c /\ c <= 3)
                /\ f \notin files_with_cards => listed = 0
                /\ c = 0 => listed = 0

\* a summary with a file of 3 matches in "low" and one of 4 in "medium"
C7_Witness ==
    /\ Completed
    /\ summary.some
    /\ InBucket("low", "low3.txt") = 1
    /\ InBucket("medium", "med4.txt") = 1
    /\ Occurrences([i \in 1..Len(results) |-> results[i].file_path], "low3.txt") = 3
    /\ Occurrences([i \in 1..Len(results) |-> results[i].file_path], "med4.txt") = 4

(***************************************************************************)
(* C8: after the summary step filesWithCards is the number of distinct     *)
(* file paths in the match list: a path is counted (and is given a risk    *)
(* bucket) iff at least one CardMatch of the result store carries it, also *)
(* for a file whose scan recorded matches and then hit an undecodable      *)
(* line.                                                                   *)
(* The code returns from scan_file at the undecodable line, before the     *)
(* insertion into files_with_cards, so such a file has matches in the      *)
(* store and is neither counted nor given a bucket.                        *)
(***************************************************************************)
C8_FilesWithCards ==
    (Completed /\ summary.some) =>
        /\ summary.total_files_with_cards = Cardinality(PathsInResults)
        /\ \A f \in DOMAIN FileSystem :
             (f \in PathsInResults) <=>
                (InBucket("high", f) + InBucket("medium", f) + InBucket("low", f) > 0)

(***************************************************************************)
(* C9: two scans of the same input paths over unchanged files end with the *)
(* same multiset of CardMatch records, the same files-with-cards set and   *)
(* the same multiset of skipped paths, whatever interleaving each takes.   *)
(* Stated for one run: what a completed run holds is the function of its   *)
(* input paths that a scan of the targets one after the other yields.      *)
(***************************************************************************)
\* the targets of the run, from its input paths
TargetsOf(paths) == CollectInputs(paths, 1, << >>, 0).files

RECURSIVE SequentialMatches(_, _)
\* the records of the first n targets, scanned one after the other
SequentialMatches(targets, n) ==
    IF n = 0 THEN << >>
    ELSE SequentialMatches(targets, n - 1) \o FileMatches[targets[n]]

\* the targets that cannot be opened or hold an undecodable line
UnreadableTargets(targets) ==
    { t \in 1..Len(targets) :
        ~FileSystem[targets[t]].openable \/ FileSystem[targets[t]].bad_line > 0 }

C9_SameMultisets ==
    Completed =>
        LET targets == TargetsOf(input_paths)
            matches == SequentialMatches(targets, Len(targets))
        IN  /\ BagOfSeq(results, Len(results)) = BagOfSeq(matches, Len(matches))
            /\ files_with_cards =
                 { targets[t] : t \in { u \in 1..Len(targets) :
                       /\ u \notin UnreadableTargets(targets)
                       /\ FileMatches[targets[u]] # << >> } }
            /\ \A f \in DOMAIN FileSystem :
                 Occurrences(skipped_files, f) =
                    Cardinality({ t \in UnreadableTargets(targets) : targets[t] = f })

\* a completed run whose match list is in an order no scan of the targets
\* one after the other gives: a record of the second target precedes one
\* of the first
C9_Witness ==
    /\ Completed
    /\ Len(files_to_scan) >= 2
    /\ files_to_scan[1] # files_to_scan[2]
    /\ \E i, j \in 1..Len(results) :
         /\ i < j
         /\ results[i].file_path = files_to_scan[2]
         /\ results[j].file_path = files_to_scan[1]

(***************************************************************************)
(* C10: no failure met while enumerating or scanning the input paths is    *)
(* fatal: for every non-empty list of input paths (paths that do not       *)
(* exist, files that cannot be opened or decoded, directories or entries   *)
(* that cannot be read) the run reaches the summary with the failing items *)
(* recorded as skipped, and does not terminate with an error.              *)
(* The code propagates an Err of collect_files with "?": a directory that  *)
(* fs::read_dir cannot read, or an entry that cannot be read, ends main    *)
(* with that error before any file is scanned.                             *)
(***************************************************************************)
C10_NoFatalFailure ==
    /\ mainPc # "error"
    /\ Completed =>
         \A t \in 1..Len(files_to_scan) :
            ( \/ ~FileSystem[files_to_scan[t]].openable
              \/ FileSystem[files_to_scan[t]].bad_line > 0 ) =>
                files_to_scan[t] \in Range(skipped_files)

(***************************************************************************)
(* C11: mask_line_content is total on every CardMatch a scan produces:     *)
(* it never fails, and when the raw line contains neither the contiguous   *)
(* full_pan nor the 4-4-4-4 grouping of it (with spaces or with dashes)    *)
(* it returns the raw line as it is; so for "3782 822463 10005", a         *)
(* 15-digit number written with separators, it returns the line.           *)
(* The code builds the two grouped patterns from the slices [0..4],        *)
(* [4..8], [8..12] and [12..16] of full_pan before it tests either of      *)
(* them: for a full_pan of 13, 14 or 15 digits that is not contiguous in   *)
(* the line the slice [12..16] is out of range and the call panics.        *)
(***************************************************************************)
C11_MaskLineTotal ==
    /\ mainPc # "panicked"
    /\ \A i \in 1..Len(results) :
         LET m      == results[i]
             masked == MaskedLines[m]
         IN  /\ ~masked.panicked
             /\ ( /\ ~Contains(m.line_content, m.full_pan)
                  /\ ~Contains(m.line_content, Grouped(m.full_pan, SPACE))
                  /\ ~Contains(m.line_content, Grouped(m.full_pan, DASH)) ) =>
                    masked.line = m.line_content

(***************************************************************************)
(* C12: the summary step runs once and only after every scan task has      *)
(* finished.  Once main is past the summary step every task has returned   *)
(* and been joined, the totals of the summary are those of the stores as   *)
(* they are, and no later step inserts into the match list, the            *)
(* files-with-cards set or the skipped-files list, or changes the summary. *)
(***************************************************************************)
\* the multiset of the brands of the first n records
RECURSIVE BrandCounts(_, _)
BrandCounts(results_vec, n) ==
    IF n = 0 THEN EmptyBag
    ELSE BrandCounts(results_vec, n - 1) (+) SetToBag({results_vec[n].brand})

\* main is past the barrier with every task finished, and the summary, if
\* there is one, agrees with the stores
SummaryOfFinalStore ==
    Completed =>
        /\ Len(task) = Len(files_to_scan)
        /\ joined = Len(task)
        /\ \A t \in 1..Len(task) : task[t].pc = "done" /\ task[t].pending = << >>
        /\ summary.some =>
             /\ summary.total_cards_found = Len(results)
             /\ summary.card_type_counts = BrandCounts(results, Len(results))
             /\ summary.total_files_with_cards = Cardinality(files_with_cards)
             /\ summary.skipped_files = skipped_files
             /\ \A f \in DOMAIN FileSystem :
                  (f \in files_with_cards) <=>
                     (InBucket("high", f) + InBucket("medium", f)
                        + InBucket("low", f) = 1)

\* no step taken after the summary step touches the stores or the summary
StoresFinal ==
    Completed =>
        /\ results' = results
        /\ files_with_cards' = files_with_cards
        /\ skipped_files' = skipped_files
        /\ summary' = summary

C12_SummaryAfterBarrier == [](SummaryOfFinalStore) /\ [][StoresFinal]_vars

\* a summary of two or more tasks has been computed over a store with
\* matches, a file with cards and a skipped file, and the output has been
\* written after it
C12_Witness ==
    /\ mainPc = "done"
    /\ summary.some
    /\ Len(task) >= 2
    /\ summary.total_cards_found >= 2
    /\ summary.total_files_with_cards >= 1
    /\ Len(summary.skipped_files) >= 1

(***************************************************************************)
(* C13: a task whose file has an undecodable line k appends its path to    *)
(* the skipped-files list exactly once, reads no line after k, leaves in   *)
(* the result store every CardMatch of the lines before k, and returns; a  *)
(* task whose file cannot be opened appends its path exactly once and      *)
(* yields no match.  The other tasks insert what they insert without the   *)
(* failure: at the end every target has exactly the records of the lines   *)
(* it could read.                                                          *)
(***************************************************************************)
\* the task's file cannot be opened, or has an undecodable line
Fails(t) ==
    \/ ~FileSystem[files_to_scan[t]].openable
    \/ FileSystem[files_to_scan[t]].bad_line > 0

\* the spawned tasks that scan the file f
TasksOn(f) == { t \in 1..Len(task) : files_to_scan[t] = f }

C13_FailureIsLocal ==
    /\ \A t \in 1..Len(task) :
         LET f == FileSystem[files_to_scan[t]]
         IN  /\ ~f.openable => task[t].line_number = 0 /\ ~task[t].found_card
             /\ f.bad_line > 0 => task[t].line_number <= f.bad_line
             /\ (f.bad_line > 0 /\ task[t].line_number = f.bad_line) =>
                    task[t].pc = "done"
    /\ \A i \in 1..Len(results) :
         LET f == FileSystem[results[i].file_path]
         IN  /\ f.openable
             /\ f.bad_line > 0 => results[i].line_number < f.bad_line
    /\ \A j \in 1..Len(skipped_files) : TasksOn(skipped_files[j]) # {}
    /\ \A p \in { files_to_scan[t] : t \in 1..Len(files_to_scan) } :
         /\ Occurrences(skipped_files, p) =
               Cardinality({ t \in TasksOn(p) : Fails(t) /\ task[t].pc = "done" })
         /\ Completed =>
              \A n \in 1..ReadableLines(p) :
                 Cardinality({ i \in 1..Len(results) :
                                 /\ results[i].file_path = p
                                 /\ results[i].line_number = n })
                   = Cardinality(TasksOn(p)) * Len(LineTable[p][n])

\* a finished run in which a file lost its second line to a decode
\* failure, kept the match of its first line and was skipped once, while
\* another task stored its own matches
C13_Witness ==
    /\ Completed
    /\ Occurrences(skipped_files, "partial.bin") = 1
    /\ \E i \in 1..Len(results) :
         results[i].file_path = "partial.bin" /\ results[i].line_number = 1
    /\ \E i \in 1..Len(results) : results[i].file_path # "partial.bin"

(***************************************************************************)
(* C14: the extractor yields every non-overlapping PAN-shaped run of a     *)
(* line, left to right, and does not stop after the first: every run of    *)
(* 13..19 digits that is bounded on each side by a non-digit or the line   *)
(* boundary is delivered to validation, also when a single non-digit is    *)
(* all that separates it from the run before it, and yields a CardMatch    *)
(* when it is Luhn-valid.                                                  *)
(* The pattern consumes the non-digit that ends a match, and the next      *)
(* match needs a non-digit of its own in front (the line start does not    *)
(* count after the first match): of two runs one character apart only the *)
(* first is extracted.                                                     *)
(***************************************************************************)
\* the maximal runs of digits of the line that are 13..19 long and
\* Luhn-valid, each as its start and its digits
ValidDigitRuns(line) ==
    { r \in { [start |-> a, digits |-> SubSeq(line, a, b)] :
                a \in 1..Len(line), b \in 1..Len(line) } :
        LET a == r.start
            b == r.start + Len(r.digits) - 1
        IN  /\ Len(r.digits) \in 13..19
            /\ AllDigits(r.digits)
            /\ a = 1 \/ ~IsDigit(line[a - 1])
            /\ b = Len(line) \/ ~IsDigit(line[b + 1])
            /\ LuhnValid(r.digits) }

\* the Luhn-valid runs of every line a scan reads
RunsTable ==
    [ p \in DOMAIN FileSystem |->
        [ n \in 1..ReadableLines(p) |-> ValidDigitRuns(FileSystem[p].lines[n]) ] ]

C14_EveryRunExtracted ==
    Completed =>
        \A t \in 1..Len(files_to_scan) :
            LET p == files_to_scan[t]
            IN  \A n \in 1..ReadableLines(p) :
                    \A r \in RunsTable[p][n] :
                        \E i \in 1..Len(results) :
                            /\ results[i].file_path = p
                            /\ results[i].line_number = n
                            /\ results[i].full_pan = r.digits

(***************************************************************************)
(* C15: a run of digits optionally interleaved with single space or dash   *)
(* separators, bounded on both sides by a non-digit or the line boundary,  *)
(* is extracted as a candidate iff its length, separators included, is     *)
(* between 12 and 19 characters; no run of 20 or more characters is        *)
(* extracted, and every extracted candidate is digit-only once its         *)
(* separators are stripped.  Checked under SpecLines.                      *)
(* The pattern is a digit, 11 to 18 characters of [0-9-\s], a digit: it    *)
(* extracts runs of 13 to 20 characters, not 12 to 19, and \s admits a     *)
(* tab, which the stripping of '-' and ' ' leaves in the candidate.        *)
(***************************************************************************)
\* a space or a dash
IsSeparator(c) == c = SPACE \/ c = DASH

\* line[a..b] is a run: it starts and ends with a digit and every
\* separator in it stands alone between two digits
IsRun(line, a, b) ==
    /\ a <= b
    /\ IsDigit(line[a])
    /\ IsDigit(line[b])
    /\ \A i \in (a + 1)..(b - 1) :
         \/ IsDigit(line[i])
         \/ IsSeparator(line[i]) /\ IsDigit(line[i - 1]) /\ IsDigit(line[i + 1])

\* the run cannot be extended: what bounds it is a non-digit that is no
\* separator of a longer run, or the line boundary
IsMaximalRun(line, a, b) ==
    /\ IsRun(line, a, b)
    /\ ~(a >= 2 /\ IsDigit(line[a - 1]))
    /\ ~(a >= 3 /\ IsSeparator(line[a - 1]) /\ IsDigit(line[a - 2]))
    /\ ~(b + 1 <= Len(line) /\ IsDigit(line[b + 1]))
    /\ ~(b + 2 <= Len(line) /\ IsSeparator(line[b + 1]) /\ IsDigit(line[b + 2]))

\* the runs of the line that are 12 to 19 characters long
RunsToExtract(line) ==
    { SubSeq(line, r[1], r[2]) :
        r \in { q \in (1..Len(line)) \X (1..Len(line)) :
                  /\ IsMaximalRun(line, q[1], q[2])
                  /\ (q[2] - q[1] + 1) \in 12..19 } }

C15_RunLength ==
    call.extract_done =>
        /\ Range(call.candidates) = RunsToExtract(call.line)
        /\ \A k \in 1..Len(call.candidates) :
             /\ Len(call.candidates[k]) < 20
             /\ AllDigits(StripSeparators(call.candidates[k]))

(***************************************************************************)
(* C16: mask_line_content applies its steps in order.  If the raw line     *)
(* contains full_pan as a contiguous substring, every occurrence of it is  *)
(* replaced by masked_pan and the grouped step is not tried.  Otherwise    *)
(* the 4-4-4-4 grouping, with single spaces and then with single dashes,   *)
(* is tried for a full_pan of 16 digits only; for a full_pan of any other  *)
(* length the grouped step changes nothing and the line is returned as it  *)
(* is.  Checked under SpecMask.                                            *)
(* The code builds the grouped patterns from the first 16 digits of        *)
(* full_pan whatever its length: with fewer than 16 digits the slice       *)
(* panics (C11), and with 17 to 19 digits the 4-4-4-4 grouping of the      *)
(* first 16 is looked for and replaced.                                    *)
(***************************************************************************)
C16_MaskStepOrder ==
    call.mask_done =>
        LET m      == call.matches[call.k]
            line   == m.line_content
            pan    == m.full_pan
            mask   == m.bin \o [k \in 1..(m.length - 10) |-> MASKX] \o m.last_four
            spaces == Grouped(pan, SPACE)
            dashes == Grouped(pan, DASH)
        IN  /\ ~call.masked.panicked
            /\ Contains(line, pan) =>
                 /\ call.masked.line = Replace(line, pan, mask)
                 /\ ~Contains(call.masked.line, pan)
            /\ (~Contains(line, pan) /\ Len(pan) = 16) =>
                 call.masked.line =
                    IF Contains(line, spaces) THEN Replace(line, spaces, mask)
                    ELSE IF Contains(line, dashes) THEN Replace(line, dashes, mask)
                    ELSE line
            /\ (~Contains(line, pan) /\ Len(pan) # 16) =>
                 call.masked.line = line

(***************************************************************************)
(* C17: classification never rejects a validated candidate.  For every     *)
(* string of 13 to 19 decimal digits identify_card_brand returns Some      *)
(* brand, "Unknown" if no other rule applies; so the loop body of          *)
(* scan_file makes exactly one CardMatch of every captured text whose      *)
(* stripped form passes the length and the Luhn checks (and none of any    *)
(* other), and the branch for None is never taken for one.                 *)
(* Checked under SpecCalls.                                                *)
(***************************************************************************)
C17_AlwaysClassified ==
    LET stripped == StripSeparators(call.number)
        passes   == Len(stripped) \in 13..19 /\ LuhnValid(stripped)
    IN  /\ ( /\ call.brand_done
             /\ AllDigits(call.number)
             /\ Len(call.number) \in 13..19 ) =>
                /\ call.brand # None
                /\ call.brand \in { CARD_BRANDS[i].name : i \in 1..Len(CARD_BRANDS) }
        /\ call.match_done =>
             /\ passes => Len(call.matches) = 1
             /\ ~passes => call.matches = << >>
             /\ \A k \in 1..Len(call.matches) :
                  /\ call.matches[k].full_pan = stripped
                  /\ call.matches[k].brand # None
        /\ (call.match_done /\ call.brand_done /\ passes) =>
             call.matches[1].brand = call.brand

\* a Luhn-valid number of 17 digits that no specific rule accepts has been
\* classified as "Unknown" and made into one CardMatch
C17_Witness ==
    /\ call.brand_done
    /\ call.match_done
    /\ call.number = PanUnknown17
    /\ call.brand = "Unknown"
    /\ Len(call.matches) = 1
    /\ call.matches[1].brand = "Unknown"

(***************************************************************************)
(* C18: the unsigned subtraction clean_files = total_files_scanned -       *)
(* total_files_with_cards never underflows.  In every state the            *)
(* files-with-cards set holds only paths of scan targets, so it has at     *)
(* most as many elements as there are targets, also when a file is named   *)
(* more than once; and the summary's clean_files is the exact difference,  *)
(* which is not negative.                                                  *)
(***************************************************************************)
C18_NoUnderflow ==
    /\ files_with_cards \subseteq { files_to_scan[t] : t \in 1..Len(files_to_scan) }
    /\ Cardinality(files_with_cards) <= Len(files_to_scan)
    /\ (Completed /\ summary.some) =>
         /\ summary.total_files_scanned = Len(files_to_scan)
         /\ summary.total_files_with_cards <= summary.total_files_scanned
         /\ summary.clean_files >= 0
         /\ summary.clean_files =
               summary.total_files_scanned - summary.total_files_with_cards

\* a summary of a run that scanned the same file with cards twice: two
\* targets, one path in the set
C18_Witness ==
    /\ Completed
    /\ summary.some
    /\ Len(files_to_scan) = 2
    /\ files_to_scan[1] = files_to_scan[2]
    /\ summary.total_files_with_cards = 1
    /\ summary.clean_files = 1

(***************************************************************************)
(* C19: a scan task makes at most one of the two terminal insertions: it   *)
(* appends its path to the skipped-files list, once, or it inserts its     *)
(* path into the files-with-cards set, never both.  So a path is skipped   *)
(* at most once per task that scans it, and when the targets are distinct  *)
(* paths the skipped-files list has no duplicates and shares no path with  *)
(* the files-with-cards set, in every reachable state.                     *)
(***************************************************************************)
C19_OneTerminalInsertion ==
    /\ \A p \in Range(skipped_files) :
         /\ Occurrences(skipped_files, p) <=
               Cardinality({ t \in TasksOn(p) : task[t].pc = "done" })
         /\ p \notin files_with_cards
    /\ \A p \in files_with_cards :
         \E t \in TasksOn(p) : task[t].pc = "done" /\ task[t].found_card
    /\ DistinctTargets =>
         /\ \A i, j \in 1..Len(skipped_files) :
              skipped_files[i] = skipped_files[j] => i = j
         /\ Range(skipped_files) \cap files_with_cards = {}

\* distinct targets, one skipped after it had stored a match, one in the
\* files-with-cards set
C19_Witness ==
    /\ DistinctTargets
    /\ "partial.bin" \in Range(skipped_files)
    /\ "partial.bin" \in PathsInResults
    /\ files_with_cards # {}

(***************************************************************************)
(* C20: masked output never shows a recorded PAN in full.  For every       *)
(* CardMatch m a scan produces, the line mask_line_content(m) returns      *)
(* contains the contiguous full_pan of no CardMatch recorded for the same  *)
(* file and line: not that of m, and not that of another match of the      *)
(* line.  Checked under SpecMask.                                          *)
(* The code replaces the number of m only: the number of every other       *)
(* match of the line stays in the returned line as it was written.         *)
(***************************************************************************)
C20_NoPanExposed ==
    (call.mask_done /\ ~call.masked.panicked) =>
        \A j \in 1..Len(call.matches) :
            ( /\ call.matches[j].file_path = call.matches[call.k].file_path
              /\ call.matches[j].line_number = call.matches[call.k].line_number ) =>
                ~Contains(call.masked.line, call.matches[j].full_pan)


(***************************************************************************)
(* C21: the scan is free of deadlock and terminates.  A scan thread holds  *)
(* at most one Mutex at a time and holds none when it reads the file or    *)
(* asks for a Mutex; the main thread never asks for a Mutex it holds; no   *)
(* state before the output is stuck; and under fair scheduling a scan      *)
(* that has started leads to every thread finished, every handle joined    *)
(* and the summary step completed.                                         *)
(***************************************************************************)
\* the Mutexes the thread holds
HeldBy(thread) == { m \in Mutexes : mutex[m] = thread }

\* where a scan thread reads the file or asks for a Mutex, and after it
\* has returned
ReadsOrRequests(t) == task[t].pc \in {"open", "lines", "done"}

\* the Mutex the main thread asks for next, if it asks for one
MainRequests ==
    CASE mainPc = "scan" /\ AllJoined /\ summary.some -> {"summary"}
      [] mainPc = "summary"                           -> {"results"}
      [] mainPc = "files"                             -> {"files_with_cards"}
      [] mainPc = "risk" /\ Unassessed # {}           -> {"results"}
      [] mainPc = "skipped"                           -> {"skipped_files"}
      [] OTHER                                        -> {}

LockDiscipline ==
    /\ \A t \in 1..Len(task) :
         /\ Cardinality(HeldBy(t)) <= 1
         /\ ReadsOrRequests(t) => HeldBy(t) = {}
    /\ MainRequests \cap HeldBy(MainThread) = {}

\* every thread has returned and every handle has been joined
BarrierPassed ==
    /\ AllJoined
    /\ \A t \in 1..Len(task) : task[t].pc = "done"

\* main is stuck only where it has returned or panicked
NotStuck == mainPc \notin {"done", "error", "panicked"} => ENABLED LockNext

C21_ScanTerminates ==
    /\ [](LockDiscipline /\ NotStuck)
    /\ (mainPc = "scan") ~> BarrierPassed
    /\ (mainPc = "scan") ~> (Completed /\ HeldBy(MainThread) = {})

\* threads of two files have pushed to results, a third has skipped its
\* file, every handle is joined and the summary step has completed
C21_Witness ==
    /\ mainPc = "output"
    /\ BarrierPassed
    /\ summary.some
    /\ Len(task) >= 3
    /\ HeldBy(MainThread) = {}
    /\ summary.total_cards_found = Len(results)
    /\ Cardinality({ results[i].file_path : i \in 1..Len(results) }) >= 2
    /\ summary.files_by_risk.low # << >>
    /\ summary.skipped_files # << >>

=============================================================================
